---- MODULE Spec2Model ----
(***************************************************************************)
(* A model of toggl.py: the MonthRange resolver, the three correctness     *)
(* checks over a list of TimeEntry values, and the run() pipeline that     *)
(* fetches, checks and downloads the monthly reports.                      *)
(*                                                                         *)
(* Python values are represented as follows.                               *)
(*   Optional[T]  : None is <<>>, a present value v is <<v>>.              *)
(*   datetime     : an entry's start/stop is an integer instant; a         *)
(*                  MonthRange date is a record [year, month, day].        *)
(*   log records  : the text of each logging.warning call, in call order.  *)
(***************************************************************************)
EXTENDS Integers, Sequences, FiniteSets, TLC

VARIABLES
    pc,           \* position of the program
    entries,      \* List[TimeEntry] handed to the checks
    warnings,     \* the messages logged at WARNING level, in order
    month,        \* args.month (Optional[int])
    year,         \* args.year (Optional[int])
    now,          \* datetime.now(), as a date record
    month_range,  \* the constructed MonthRange, None before / on failure
    err,          \* the exception that left run(), "" when none
    requests,     \* the HTTP requests issued so far, in order
    files,        \* the report files written so far, in order
    malformed,    \* what was wrong with the fetched report ("" when nothing)
    spreadsheet_id \* SPREADSHEET_ID, "" when no invoice sheet is configured

vars == <<pc, entries, warnings, month, year, now, month_range, err,
          requests, files, malformed, spreadsheet_id>>

None == <<>>
Some(v) == <<v>>

(***************************************************************************)
(* Bounds of the model.                                                    *)
(***************************************************************************)
MaxEntries == 3
MaxTime == 2

SECONDS_IN_H == 3600

(***************************************************************************)
(* TimeEntry and the text of its fields inside an f-string.                *)
(***************************************************************************)
TimeEntry(project_id, description, start, stop, seconds) ==
    [project_id |-> project_id, description |-> description,
     start |-> start, stop |-> stop, seconds |-> seconds]

\* str() of an Optional[int]: "None" or the decimal digits.
OptIntStr(o) == IF o = None THEN "None" ELSE ToString(o[1])

\* str() of a datetime instant; distinct instants print differently.
DatetimeStr(t) == "t" \o ToString(t)

(***************************************************************************)
(* check_if_empty                                                          *)
(***************************************************************************)
\* `not entry.description`: a str is falsy exactly when it has no characters.
DescriptionFalsyBlank(description) == description = "" \/ description = " "
DescriptionFalsy(description) == description = ""

\* `entry.project_id is None`
ProjectAbsent(project_id) == project_id = None

EmptyDescriptionMsg(entry) ==
    "Entry: " \o OptIntStr(entry.project_id) \o " at " \o DatetimeStr(entry.start)
        \o " has empty description."

EmptyProjectMsg(entry) ==
    "Entry: " \o entry.description \o " at " \o DatetimeStr(entry.start)
        \o " has empty project."

\* The warnings of one iteration of the loop body.
EmptyWarningsOf(entry) ==
    (IF DescriptionFalsy(entry.description)
        THEN <<EmptyDescriptionMsg(entry)>> ELSE <<>>)
    \o (IF ProjectAbsent(entry.project_id)
        THEN <<EmptyProjectMsg(entry)>> ELSE <<>>)

RECURSIVE check_if_empty(_)
check_if_empty(es) ==
    IF es = <<>> THEN <<>>
    ELSE EmptyWarningsOf(Head(es)) \o check_if_empty(Tail(es))

(***************************************************************************)
(* check_reasonable_time                                                   *)
(***************************************************************************)
RECURSIVE Pow2Mod(_, _)
Pow2Mod(k, m) == IF k = 0 THEN 1 % m ELSE (2 * Pow2Mod(k - 1, m)) % m

\* 48 - floor(log2(n / d)) for n > 0: the number of binary places by which
\* n / 3600 = n / (16 * 225) is scaled to fill a double's 53-bit significand.
RECURSIVE UlpShift(_, _)
UlpShift(n, d) ==
    IF n >= 2 * d THEN UlpShift(n, 2 * d) - 1
    ELSE IF n < d THEN UlpShift(2 * n, d) + 1
    ELSE 48

\* Whether the double nearest to s / 3600 lies at, below or above s / 3600:
\* the remainder of the scaled numerator modulo 225 decides it.
FloatResidue(s) == ((s % 225) * Pow2Mod(UlpShift(s, SECONDS_IN_H), 225)) % 225

\* round(s / SECONDS_IN_H, 2) in hundredths of an hour. s / 3600 is the
\* double nearest to the quotient; round() then rounds that double
\* correctly, half to even. A quotient half way between two hundredths
\* (s % 36 = 18) is decided by where its double lies.
RoundTruncates(s) == s \div 36
RoundHundredths(s) ==
    LET q == s \div 36
        r == s % 36
    IN  IF r < 18 THEN q
        ELSE IF r > 18 THEN q + 1
        ELSE IF FloatResidue(s) = 0 THEN (IF q % 2 = 0 THEN q ELSE q + 1)
        ELSE IF FloatResidue(s) <= 112 THEN q
        ELSE q + 1

\* str() of a float with at most two decimals: shortest form, at least one
\* decimal digit ("8.0", "8.1", "8.01").
HoursStr(h) ==
    ToString(h \div 100) \o "." \o
        (IF h % 10 = 0 THEN ToString((h % 100) \div 10)
         ELSE ToString((h % 100) \div 10) \o ToString(h % 10))

TooLongGe(h) == h >= 800
TooLong(h) == h > 800

LastedMsg(entry, h) ==
    "Entry: " \o entry.description \o " at " \o DatetimeStr(entry.start)
        \o " lasted " \o HoursStr(h) \o "h."

\* The loop of check_reasonable_time: [log, raised]. entry.seconds / 3600
\* raises TypeError when seconds is None, which ends the loop.
RECURSIVE check_reasonable_time(_)
check_reasonable_time(es) ==
    IF es = <<>> THEN [log |-> <<>>, raised |-> FALSE]
    ELSE IF Head(es).seconds = None THEN [log |-> <<>>, raised |-> TRUE]
    ELSE LET h == RoundHundredths(Head(es).seconds[1])
             rest == check_reasonable_time(Tail(es))
         IN  [log |-> (IF TooLong(h) THEN <<LastedMsg(Head(es), h)>> ELSE <<>>)
                        \o rest.log,
              raised |-> rest.raised]

(***************************************************************************)
(* check_if_overlapping                                                    *)
(***************************************************************************)
\* Tuple comparison (e1.start, e1.stop) <= (e2.start, e2.stop).
KeyLeStartOnly(e1, e2) == e1.start <= e2.start
KeyLe(e1, e2) ==
    e1.start < e2.start \/ (e1.start = e2.start /\ e1.stop <= e2.stop)

\* sorted() is stable: an element goes after every element whose key is
\* not greater than its own.
RECURSIVE InsertSorted(_, _)
InsertSorted(e, s) ==
    IF s = <<>> THEN <<e>>
    ELSE IF KeyLe(Head(s), e) THEN <<Head(s)>> \o InsertSorted(e, Tail(s))
    ELSE <<e>> \o s

RECURSIVE sorted(_)
sorted(es) ==
    IF es = <<>> THEN <<>>
    ELSE InsertSorted(es[Len(es)], sorted(SubSeq(es, 1, Len(es) - 1)))

OverlapsOrTouches(int1, int2) == int2.start <= int1.stop
Overlaps(int1, int2) == int2.start < int1.stop

OverlappingMsg(int1, int2) ==
    "Entries: " \o int1.description \o " at " \o DatetimeStr(int1.stop) \o ", "
        \o int2.description \o " at " \o DatetimeStr(int2.start)
        \o " are overlapping."

\* zip(s, s[1:]) walked from the left.
RECURSIVE OverlapWarnings(_)
OverlapWarnings(s) ==
    IF Len(s) < 2 THEN <<>>
    ELSE (IF Overlaps(s[1], s[2]) THEN <<OverlappingMsg(s[1], s[2])>> ELSE <<>>)
         \o OverlapWarnings(Tail(s))

check_if_overlapping(es) == OverlapWarnings(sorted(es))

(***************************************************************************)
(* Inputs of the checks.                                                   *)
(***************************************************************************)
RECURSIVE SeqsUpTo(_, _)
SeqsUpTo(S, n) ==
    IF n = 0 THEN {<<>>}
    ELSE LET shorter == SeqsUpTo(S, n - 1)
         IN  shorter \cup {Append(s, x) : s \in {t \in shorter : Len(t) = n - 1}, x \in S}

Descriptions == {"", " ", "a"}
ProjectIds == {None, Some(0), Some(7)}

\* 7h, 8h, 8.001h (28803.6 s, either side), the last second rounding to
\* 8.0, the half-way quotients 8.005 and 8.125, 8.01h and 9h.
SecondsValues == {25200, 28800, 28803, 28804, 28817, 28818, 28819, 28836,
                  29250, 32400}

EmptyInputs ==
    {TimeEntry(p, d, 0, 1, Some(60)) : p \in ProjectIds, d \in Descriptions}

TimeInputs ==
    {TimeEntry(Some(7), "a", 0, 1, Some(s)) : s \in SecondsValues}

OverlapInputs ==
    {TimeEntry(Some(7), d, t[1], t[2], Some(60)) :
        d \in {"a", "b"},
        t \in {u \in (0..MaxTime) \X (0..MaxTime) : u[1] <= u[2]}}

NoDate == [year |-> 0, month |-> 0, day |-> 0]

Idle ==
    /\ month = None /\ year = None /\ now = NoDate /\ month_range = None
    /\ err = "" /\ requests = <<>> /\ files = <<>> /\ malformed = ""
    /\ spreadsheet_id = ""

InitChecks(inputs) ==
    /\ pc = "input"
    /\ entries \in SeqsUpTo(inputs, MaxEntries)
    /\ warnings = <<>>
    /\ Idle

Logged(log) ==
    /\ pc = "input"
    /\ pc' = "checked"
    /\ warnings' = warnings \o log
    /\ UNCHANGED <<entries, month, year, now, month_range, err, requests,
                   files, malformed, spreadsheet_id>>

CheckIfEmpty == Logged(check_if_empty(entries))
CheckReasonableTime == Logged(check_reasonable_time(entries).log)
CheckIfOverlapping == Logged(check_if_overlapping(entries))

SpecEmpty == InitChecks(EmptyInputs) /\ [][CheckIfEmpty]_vars
SpecTime == InitChecks(TimeInputs) /\ [][CheckReasonableTime]_vars
SpecOverlap == InitChecks(OverlapInputs) /\ [][CheckIfOverlapping]_vars

(***************************************************************************)
(* MonthRange                                                              *)
(***************************************************************************)
Date(y, m, d) == [year |-> y, month |-> m, day |-> d]

\* calendar.isleap
isleap(y) == y % 4 = 0 /\ (y % 100 # 0 \/ y % 400 = 0)

\* calendar.monthrange(year, month)[1]: mdays[month], one more for a leap
\* February.
mdays == <<31, 28, 31, 30, 31, 30, 31, 31, 30, 31, 30, 31>>
monthrange_days(y, m) == mdays[m] + (IF m = 2 /\ isleap(y) THEN 1 ELSE 0)

\* date - timedelta(days=1)
PrevDay(d) ==
    IF d.day > 1 THEN Date(d.year, d.month, d.day - 1)
    ELSE IF d.month > 1
        THEN Date(d.year, d.month - 1, monthrange_days(d.year, d.month - 1))
    ELSE Date(d.year - 1, 12, 31)

\* date + timedelta(days=1)
NextDay(d) ==
    IF d.day < monthrange_days(d.year, d.month)
        THEN Date(d.year, d.month, d.day + 1)
    ELSE IF d.month < 12 THEN Date(d.year, d.month + 1, 1)
    ELSE Date(d.year + 1, 1, 1)

\* date + timedelta(days=n), n >= 0
RECURSIVE AddDays(_, _)
AddDays(d, n) == IF n = 0 THEN d ELSE AddDays(NextDay(d), n - 1)

\* datetime.now().replace(day=1) - timedelta(days=1)
last_day_of_prev_month(today) == PrevDay(Date(today.year, today.month, 1))

\* `x or default` on an Optional[int]: None and 0 are falsy.
OrElse(x, default) == IF x = None \/ x = Some(0) THEN default ELSE x[1]

\* self.month and self.year as lines 75-76 set them.
DefaultedTogether(m, y, prev) ==
    IF m = None \/ y = None THEN [month |-> prev.month, year |-> prev.year]
    ELSE [month |-> m[1], year |-> y[1]]
Defaulted(m, y, prev) ==
    [month |-> OrElse(m, prev.month), year |-> OrElse(y, prev.year)]

\* datetime(year, month, 1) raises ValueError outside MINYEAR..MAXYEAR and
\* outside months 1..12.
DatetimeValid(y, m) == y >= 1 /\ y <= 9999 /\ m >= 1 /\ m <= 12

\* The span from _start to _end.
EndDeltaWholeMonth(days) == days
EndDelta(days) == days - 1

\* MonthRange(month, year) at the date `today`: the object, or None when
\* the constructor raised ValueError.
MonthRange(m, y, today) ==
    LET a == Defaulted(m, y, last_day_of_prev_month(today))
    IN  IF ~DatetimeValid(a.year, a.month) THEN None
        ELSE LET start == Date(a.year, a.month, 1)
                 days == monthrange_days(start.year, start.month)
             IN  Some([_start |-> start,
                       _end |-> AddDays(start, EndDelta(days)),
                       days |-> days,
                       month |-> a.month,
                       year |-> a.year])

\* strftime("%Y-%m-%d"): month and day are padded to two digits; the year
\* is printed as the C library prints it, four digits from 1000 on.
Pad2(n) == IF n < 10 THEN "0" \o ToString(n) ELSE ToString(n)
strftime(d) == ToString(d.year) \o "-" \o Pad2(d.month) \o "-" \o Pad2(d.day)

\* The start and end properties.
start_of(mr) == strftime(mr._start)
end_of(mr) == strftime(mr._end)

MonthArgs == {None} \cup {Some(m) : m \in (-2)..14}
YearArgs == {None} \cup {Some(y) : y \in {-1, 0, 1, 4, 100, 1900, 2000, 2023,
                                          2024, 9999, 10000}}
NowDates ==
    {Date(y, m, d) : y \in {2023, 2024}, m \in 1..12, d \in {1, 10, 28}}

InitMonthRange ==
    /\ pc = "args"
    /\ month \in MonthArgs
    /\ year \in YearArgs
    /\ now \in NowDates
    /\ month_range = None
    /\ err = ""
    /\ entries = <<>> /\ warnings = <<>> /\ requests = <<>> /\ files = <<>>
    /\ malformed = "" /\ spreadsheet_id = ""

\* month_range = MonthRange(args.month, args.year)
Construct(next) ==
    /\ month_range' = MonthRange(month, year, now)
    /\ IF month_range' = None
        THEN err' = "ValueError" /\ pc' = "raised"
        ELSE err' = err /\ pc' = next

MonthRangeInit ==
    /\ pc = "args"
    /\ Construct("constructed")
    /\ UNCHANGED <<entries, warnings, month, year, now, requests, files,
                   malformed, spreadsheet_id>>

SpecMonthRange == InitMonthRange /\ [][MonthRangeInit]_vars

(***************************************************************************)
(* run(): fetch and check the entries, then download the reports.          *)
(***************************************************************************)
MaxTasks == 2

BASE_URL == "https://api.track.toggl.com"
WORKSPACE_ID == ""
COMPANY == ""
HANDLE == ""

\* ReportType values and ReportType.filename()
SUM == "summary"
DET == "search"
INVOICE == "invoice"
filename(report_type) ==
    IF report_type = DET THEN "time_entries"
    ELSE IF report_type = INVOICE THEN report_type
    ELSE report_type \o "_report"

\* FileExtension values
CSV == ".csv"
PDF == ".pdf"
XLSX == ".xlsx"
NONE == ""

REPORTS_URL(report_type, extension) ==
    BASE_URL \o "/reports/api/v3/workspace/" \o WORKSPACE_ID \o "/"
        \o report_type \o "/time_entries" \o extension

GSHEET_URL(sheet) ==
    "https://docs.google.com/spreadsheets/d/" \o sheet \o "/export?format=xlsx"

\* The request get_report posts.
ReportRequest(report_type, file_ext, mr) ==
    [method |-> "POST",
     url |-> REPORTS_URL(report_type, file_ext),
     start_date |-> start_of(mr),
     end_date |-> end_of(mr)]

\* The request download_invoice sends.
InvoiceRequest(sheet) ==
    [method |-> "GET", url |-> GSHEET_URL(sheet),
     start_date |-> "", end_date |-> ""]

\* response.raise_for_status() raises HTTPError for 4xx and 5xx.
Statuses == {200, 404, 500}
RaisesForStatus(status) == status >= 400 /\ status < 600

\* The path save_response writes.
ReportFilename(report_type, file_ext, mr) ==
    "reports/" \o ToString(mr.month) \o "." \o ToString(mr.year) \o "/"
        \o COMPANY \o "_" \o HANDLE \o "_" \o filename(report_type)
        \o "_" \o start_of(mr) \o "_to_" \o end_of(mr) \o file_ext

\* ISO text of an instant in the report, and datetime.fromisoformat of it.
Instants == 0..MaxTime
IsoStr(t) == "T" \o ToString(t)
fromisoformat(s) == CHOOSE t \in Instants : IsoStr(t) = s

\* A JSON object is a record of Optional fields: None is a missing key.
\* The value of "seconds" is itself Optional: JSON null is None.
RawEntry(start, stop, seconds) ==
    [start |-> start, stop |-> stop, seconds |-> seconds]
RawTask(project_id, description, time_entries) ==
    [project_id |-> project_id, description |-> description,
     time_entries |-> time_entries]

\* The inner loop of get_time_entries over one task's time entries:
\* [entries, raised]. Every subscript of a missing key raises KeyError.
RECURSIVE ParseEntries(_, _)
ParseEntries(task, raw) ==
    IF raw = <<>> THEN [entries |-> <<>>, raised |-> FALSE]
    ELSE IF \/ task.project_id = None \/ task.description = None
            \/ Head(raw).start = None \/ Head(raw).stop = None
            \/ Head(raw).seconds = None
        THEN [entries |-> <<>>, raised |-> TRUE]
    ELSE LET rest == ParseEntries(task, Tail(raw))
         IN  [entries |->
                <<TimeEntry(task.project_id[1], task.description[1],
                            fromisoformat(Head(raw).start[1]),
                            fromisoformat(Head(raw).stop[1]),
                            Head(raw).seconds[1])>> \o rest.entries,
              raised |-> rest.raised]

\* The outer loop of get_time_entries.
RECURSIVE ParseTasks(_)
ParseTasks(tasks) ==
    IF tasks = <<>> THEN [entries |-> <<>>, raised |-> FALSE]
    ELSE IF Head(tasks).time_entries = None
        THEN [entries |-> <<>>, raised |-> TRUE]
    ELSE LET first == ParseEntries(Head(tasks), Head(tasks).time_entries[1])
             rest == ParseTasks(Tail(tasks))
         IN  [entries |-> first.entries \o rest.entries,
              raised |-> first.raised \/ rest.raised]

ExceptionMsg ==
    "Raised exception unsupported operand type(s) for /: 'NoneType' and 'int'"
        \o " while checking for correctness."

\* The try block of check_correctness: [log, raised]. The first check that
\* raises ends the block, and the handler logs one warning.
TryChecks(es) ==
    LET empty == check_if_empty(es)
        time == check_reasonable_time(es)
    IN  IF time.raised
            THEN [log |-> empty \o time.log \o <<ExceptionMsg>>, raised |-> TRUE]
        ELSE [log |-> empty \o time.log \o check_if_overlapping(es),
              raised |-> FALSE]

\* The reports the service may return.
RawEntries ==
    {RawEntry(Some(IsoStr(0)), Some(IsoStr(2)), Some(Some(28836))),
     RawEntry(Some(IsoStr(1)), Some(IsoStr(2)), Some(Some(60))),
     RawEntry(Some(IsoStr(1)), Some(IsoStr(2)), Some(None)),
     RawEntry(Some(IsoStr(1)), Some(IsoStr(2)), None),
     RawEntry(None, Some(IsoStr(2)), Some(Some(60)))}
RawTasks ==
    {RawTask(Some(Some(7)), Some("a"), Some(<<e>>)) : e \in RawEntries}
    \cup {RawTask(Some(None), Some(""), Some(<<e>>)) : e \in RawEntries}
    \cup {RawTask(Some(Some(7)), Some("a"), None),
          RawTask(None, Some("a"), Some(<<>>)),
          RawTask(None, Some("a"),
                  Some(<<RawEntry(Some(IsoStr(0)), Some(IsoStr(1)),
                                  Some(Some(60)))>>)),
          RawTask(Some(Some(7)), None,
                  Some(<<RawEntry(Some(IsoStr(0)), Some(IsoStr(1)),
                                  Some(Some(60)))>>))}
Reports == SeqsUpTo(RawTasks, MaxTasks)

InitRun ==
    /\ pc = "run"
    /\ month \in {None, Some(0), Some(10), Some(13)}
    /\ year \in {None, Some(2023), Some(10000)}
    /\ now \in {Date(2023, 1, 10), Date(2023, 7, 10)}
    /\ spreadsheet_id \in {"", "sheet"}
    /\ month_range = None
    /\ err = ""
    /\ entries = <<>> /\ warnings = <<>> /\ requests = <<>> /\ files = <<>>
    /\ malformed = ""

\* run(), line 114.
RunMonthRange ==
    /\ pc = "run"
    /\ Construct("check_correctness")
    /\ UNCHANGED <<entries, warnings, month, year, now, requests, files,
                   malformed, spreadsheet_id>>

\* run(), line 116: check_correctness(month_range), get_time_entries
\* included.
CheckCorrectness ==
    /\ pc = "check_correctness"
    /\ requests' =
            Append(requests, ReportRequest(DET, NONE, month_range[1]))
    /\ \E status \in Statuses, tasks \in Reports :
        IF RaisesForStatus(status)
            THEN /\ err' = "HTTPError" /\ pc' = "raised"
                 /\ UNCHANGED <<entries, warnings, malformed>>
        ELSE LET parsed == ParseTasks(tasks)
                 checks == TryChecks(parsed.entries)
             IN  IF parsed.raised
                    THEN /\ err' = "KeyError" /\ pc' = "raised"
                         /\ malformed' = "record"
                         /\ UNCHANGED <<entries, warnings>>
                 ELSE /\ entries' = parsed.entries
                      /\ warnings' = warnings \o checks.log
                      /\ malformed' = IF checks.raised THEN "entry" ELSE ""
                      /\ pc' = "download_summary_pdf"
                      /\ err' = err
    /\ UNCHANGED <<month, year, now, month_range, files, spreadsheet_id>>

\* download_report: the request, then the file unless the status raised.
download_report(report_type, file_ext, next) ==
    /\ requests' =
            Append(requests, ReportRequest(report_type, file_ext, month_range[1]))
    /\ \E status \in Statuses :
        IF RaisesForStatus(status)
            THEN err' = "HTTPError" /\ pc' = "raised" /\ files' = files
        ELSE /\ files' = Append(files,
                            ReportFilename(report_type, file_ext, month_range[1]))
             /\ pc' = next
             /\ err' = err
    /\ UNCHANGED <<entries, warnings, month, year, now, month_range,
                   malformed, spreadsheet_id>>

\* run(), lines 118-120, and the test of SPREADSHEET_ID at line 122.
DownloadSummaryPdf ==
    pc = "download_summary_pdf" /\ download_report(SUM, PDF, "download_detail_pdf")
DownloadDetailPdf ==
    pc = "download_detail_pdf" /\ download_report(DET, PDF, "download_detail_csv")
DownloadDetailCsv ==
    /\ pc = "download_detail_csv"
    /\ download_report(DET, CSV,
            IF spreadsheet_id # "" THEN "download_invoice" ELSE "returned")

\* run(), line 123: download_invoice.
DownloadInvoice ==
    /\ pc = "download_invoice"
    /\ requests' = Append(requests, InvoiceRequest(spreadsheet_id))
    /\ \E status \in Statuses :
        IF RaisesForStatus(status)
            THEN err' = "HTTPError" /\ pc' = "raised" /\ files' = files
        ELSE /\ files' = Append(files,
                            ReportFilename(INVOICE, XLSX, month_range[1]))
             /\ pc' = "returned"
             /\ err' = err
    /\ UNCHANGED <<entries, warnings, month, year, now, month_range,
                   malformed, spreadsheet_id>>

NextRun ==
    \/ RunMonthRange
    \/ CheckCorrectness
    \/ DownloadSummaryPdf
    \/ DownloadDetailPdf
    \/ DownloadDetailCsv
    \/ DownloadInvoice

SpecRun == InitRun /\ [][NextRun]_vars

(***************************************************************************)
(* Properties of the checks.                                               *)
(***************************************************************************)
Indices == 1..Len(entries)
CountOf(P(_)) == Cardinality({i \in Indices : P(entries[i])})
Range(s) == {s[i] : i \in 1..Len(s)}
IndexSeq(n) == [i \in 1..n |-> i]

\* C4 as stated: check_if_empty logs one warning per entry whose description
\* is empty or blank plus one per entry whose project_id is absent.
C4_WarnsPerEmptyOrBlankDescription ==
    pc = "checked" =>
        Len(warnings) = CountOf(LAMBDA e : e.description \in {"", " "})
                        + CountOf(LAMBDA e : e.project_id = None)

\* C4 amended: check_if_empty logs, for each entry, one warning if its
\* description is the empty string and a separate one if its project_id is
\* None, and nothing else; a description of only whitespace is not reported.
C4_WarnsPerEmptyDescriptionAndAbsentProject ==
    pc = "checked" =>
        /\ Len(warnings) = CountOf(LAMBDA e : e.description = "")
                           + CountOf(LAMBDA e : e.project_id = None)
        /\ \A i \in Indices :
            /\ (entries[i].description = "")
                    => (EmptyDescriptionMsg(entries[i]) \in Range(warnings))
            /\ (entries[i].project_id = None)
                    => (EmptyProjectMsg(entries[i]) \in Range(warnings))
        /\ (\A i \in Indices : entries[i].description # ""
                                /\ entries[i].project_id # None)
                => warnings = <<>>

\* An entry missing both fields beside a blank-described entry and a complete
\* one: two warnings in all.
C4_Witness ==
    /\ pc = "checked"
    /\ \E i, j, k \in Indices :
        /\ entries[i].description = "" /\ entries[i].project_id = None
        /\ entries[j].description = " " /\ entries[j].project_id = Some(0)
        /\ entries[k].description = "a" /\ entries[k].project_id = Some(7)
    /\ Len(warnings) = 2

\* C2 as stated: check_reasonable_time logs one warning per entry whose
\* duration exceeds 8 hours (seconds > 28800) and none for the others.
C2_WarnsEverySecondOver8h ==
    pc = "checked" =>
        Len(warnings) = CountOf(LAMBDA e : e.seconds[1] > 8 * SECONDS_IN_H)

\* C2 amended: check_reasonable_time logs one warning per entry whose
\* duration rounded to hundredths of an hour exceeds 8, which for whole
\* seconds is seconds >= 28818, and none for the others: exactly 8h and
\* 8.001h are both exempt.
C2_WarnsWhenRoundedHoursOver8 ==
    pc = "checked" =>
        /\ Len(warnings) = CountOf(LAMBDA e : e.seconds[1] >= 8 * SECONDS_IN_H + 18)
        /\ (\A i \in Indices : entries[i].seconds[1] <= 8 * SECONDS_IN_H + 17)
                => warnings = <<>>

\* Entries between 8h and 8.005h go unreported beside one that is reported.
C2_Witness ==
    /\ pc = "checked"
    /\ \E i, j, k \in Indices :
        /\ entries[i].seconds = Some(28804)
        /\ entries[j].seconds = Some(28817)
        /\ entries[k].seconds = Some(28818)
    /\ Len(warnings) = 1

\* h hundredths of an hour are nearest to s seconds.
C3_Nearest(s, h) == 36 * h - 18 <= s /\ s <= 36 * h + 18
C3_Reported(h) == SelectSeq(IndexSeq(Len(entries)), LAMBDA i : h[i] > 800)

\* C3: check_reasonable_time logs nothing for 7h, 8h and 8.001h, logs
\* "8.01h" for 28836 s, and in general reports exactly the entries whose
\* hours, rounded to the nearest hundredth, exceed 8, each with that value.
C3_WarnsWithRoundedHours ==
    pc = "checked" =>
        /\ \E up \in [Indices -> {0, 1}] :
            LET h == [i \in Indices |-> entries[i].seconds[1] \div 36 + up[i]]
            IN  /\ \A i \in Indices : C3_Nearest(entries[i].seconds[1], h[i])
                /\ warnings = [k \in 1..Len(C3_Reported(h)) |->
                                LastedMsg(entries[C3_Reported(h)[k]],
                                          h[C3_Reported(h)[k]])]
        /\ (\A i \in Indices :
                entries[i].seconds[1] \in {25200, 28800, 28803, 28804})
                => warnings = <<>>
        /\ Len(warnings) >=
                CountOf(LAMBDA e : e.seconds = Some(28836))
        /\ \A i \in Indices :
            entries[i].seconds = Some(28836) =>
                "Entry: a at t0 lasted 8.01h." \in Range(warnings)
        /\ entries = <<TimeEntry(Some(7), "a", 0, 1, Some(28836))>>
                => warnings = <<"Entry: a at t0 lasted 8.01h.">>

\* 8h and 8.001h pass silently and 8.01h is reported as such.
C3_Witness ==
    /\ pc = "checked"
    /\ [i \in Indices |-> entries[i].seconds[1]] = <<28800, 28804, 28836>>
    /\ warnings = <<"Entry: a at t0 lasted 8.01h.">>

\* The arrangement p of the entries ascends by (start, stop); its
\* neighbours that overlap.
C1_SortedBy(p) ==
    \A i \in 1..(Len(entries) - 1) :
        \/ entries[p[i]].start < entries[p[i + 1]].start
        \/ /\ entries[p[i]].start = entries[p[i + 1]].start
           /\ entries[p[i]].stop <= entries[p[i + 1]].stop
C1_Hits(p) ==
    SelectSeq(IndexSeq(Len(entries) - 1),
              LAMBDA i : entries[p[i + 1]].start < entries[p[i]].stop)

\* C1: check_if_overlapping logs exactly one warning for each pair of
\* neighbours of the entries sorted by (start, stop) whose later start is
\* strictly before the earlier stop, in that order, and nothing else.
C1_WarnsPerOverlappingNeighbours ==
    pc = "checked" =>
        /\ \E p \in Permutations(Indices) :
            /\ C1_SortedBy(p)
            /\ warnings = [k \in 1..Len(C1_Hits(p)) |->
                            OverlappingMsg(entries[p[C1_Hits(p)[k]]],
                                           entries[p[C1_Hits(p)[k] + 1]])]
        /\ \A i, j \in Indices :
            entries[j].start >= entries[i].stop =>
                OverlappingMsg(entries[i], entries[j]) \notin Range(warnings)

\* Three entries: one overlapping neighbour pair is reported, a touching
\* pair is not, and the overlap of the two non-neighbours is not either.
C1_Witness ==
    /\ pc = "checked"
    /\ Len(warnings) = 1
    /\ \E i, j, k \in Indices :
        /\ entries[i].start < entries[j].start
        /\ entries[j].stop = entries[k].start
        /\ entries[j].start = entries[k].start
        /\ entries[j].stop < entries[k].stop
        /\ entries[k].start < entries[i].stop
        /\ OverlappingMsg(entries[i], entries[j]) \in Range(warnings)
        /\ OverlappingMsg(entries[i], entries[k]) \notin Range(warnings)

Permuted(p) == [i \in Indices |-> entries[p[i]]]

\* C9 as stated: the set of warnings of check_if_overlapping is the same for
\* every permutation of the entries.
C9_SameWarningsForEveryOrder ==
    pc = "checked" =>
        \A p \in Permutations(Indices) :
            Range(check_if_overlapping(Permuted(p))) = Range(warnings)

\* Entries with equal (start, stop) have equal descriptions.
C9_TiesNamedAlike ==
    \A i, j \in Indices :
        (entries[i].start = entries[j].start /\ entries[i].stop = entries[j].stop)
            => entries[i].description = entries[j].description

\* C9 amended: every permutation of the entries yields the same number of
\* warnings, and the same warnings when no two entries with different
\* descriptions have equal (start, stop).
C9_SameWarningsUnlessTied ==
    pc = "checked" =>
        \A p \in Permutations(Indices) :
            /\ Len(check_if_overlapping(Permuted(p))) = Len(warnings)
            /\ C9_TiesNamedAlike => check_if_overlapping(Permuted(p)) = warnings

\* Three entries given in descending order, no two with the same key, two
\* overlaps reported.
C9_Witness ==
    /\ pc = "checked"
    /\ Len(entries) = 3
    /\ C9_TiesNamedAlike
    /\ ~KeyLe(entries[1], entries[2]) /\ ~KeyLe(entries[2], entries[3])
    /\ Len(warnings) = 2

(***************************************************************************)
(* Properties of MonthRange.                                               *)
(***************************************************************************)

\* C5 as stated: an explicitly given month outside 1..12 or year outside
\* 1..9999 makes the constructor raise ValueError and yields no object.
C5_OutOfRangeRaises ==
    (pc # "args" /\ (\/ (month # None /\ month[1] \notin 1..12)
                     \/ (year # None /\ year[1] \notin 1..9999)))
        => (err = "ValueError" /\ month_range = None)

\* The calendar month before the current date.
C8_PrevMonth == IF now.month = 1 THEN 12 ELSE now.month - 1
C8_PrevYear == IF now.month = 1 THEN now.year - 1 ELSE now.year

\* C8: an absent month or year defaults, each on its own, to that of the
\* calendar month before the current date (December of the year before in
\* January); a given value in range is kept; absent values never raise.
C8_AbsentFieldsDefaultToPreviousMonth ==
    /\ pc = "constructed" =>
        /\ month = None => month_range[1].month = C8_PrevMonth
        /\ year = None => month_range[1].year = C8_PrevYear
        /\ (month # None /\ month[1] \in 1..12)
                => month_range[1].month = month[1]
        /\ (year # None /\ year[1] \in 1..9999)
                => month_range[1].year = year[1]
    /\ (pc # "args" /\ (month = None \/ (month[1] >= 1 /\ month[1] <= 12))
                    /\ (year = None \/ (year[1] >= 1 /\ year[1] <= 9999)))
            => pc = "constructed"

\* In January 2023 a given month 5 is kept and the year falls back to 2022.
C8_Witness ==
    /\ pc = "constructed"
    /\ now = Date(2023, 1, 10)
    /\ month = Some(5) /\ year = None
    /\ month_range[1].month = 5 /\ month_range[1].year = 2022
    /\ start_of(month_range[1]) = "2022-05-01"

\* The length of a month of the Gregorian calendar.
C10_GregorianDays(y, m) ==
    IF m \in {4, 6, 9, 11} THEN 30
    ELSE IF m # 2 THEN 31
    ELSE IF y % 400 = 0 THEN 29
    ELSE IF y % 100 = 0 THEN 28
    ELSE IF y % 4 = 0 THEN 29
    ELSE 28

\* C10: a constructed MonthRange starts on day 1 of (month, year), has the
\* Gregorian number of days of that month, ends days - 1 days later, and
\* its end lies in the same month and year.
C10_MonthRangeSpansItsMonth ==
    pc = "constructed" =>
        LET mr == month_range[1]
        IN  /\ mr._start = Date(mr.year, mr.month, 1)
            /\ mr.days = C10_GregorianDays(mr.year, mr.month)
            /\ mr._end.year = mr.year /\ mr._end.month = mr.month
            /\ mr._end.day - mr._start.day = mr.days - 1
            /\ (mr.month = 10 /\ mr.year = 2023) =>
                    /\ start_of(mr) = "2023-10-01"
                    /\ end_of(mr) = "2023-10-31"
                    /\ mr.days = 31

\* February of a leap year ends on the 29th.
C10_Witness ==
    /\ pc = "constructed"
    /\ month = Some(2) /\ year = Some(2024)
    /\ month_range[1].days = 29
    /\ end_of(month_range[1]) = "2024-02-29"

(***************************************************************************)
(* Properties of run().                                                    *)
(***************************************************************************)
Count(s, x) == Cardinality({i \in 1..Len(s) : s[i] = x})
IsPrefix(s, full) == Len(s) <= Len(full) /\ s = SubSeq(full, 1, Len(s))

\* C6 as stated: a report or entry with a missing field never makes
\* check_correctness raise; one warning is logged for it and run() goes on
\* to the downloads.
C6_MalformedIsLoggedNotRaised ==
    malformed # "" =>
        /\ err \notin {"KeyError", "TypeError"}
        /\ Count(warnings, ExceptionMsg) = 1
        /\ Len(requests) = 1 => pc = "download_summary_pdf"

\* The half of C6 the code keeps: a failure inside the checks is logged
\* once and the downloads follow.
C6_CheckFailureIsLogged ==
    malformed = "entry" =>
        /\ err \in {"", "HTTPError"}
        /\ Count(warnings, ExceptionMsg) = 1
        /\ Len(requests) = 1 => pc = "download_summary_pdf"

ExpectedRequests ==
    <<ReportRequest(DET, NONE, month_range[1]),
      ReportRequest(SUM, PDF, month_range[1]),
      ReportRequest(DET, PDF, month_range[1]),
      ReportRequest(DET, CSV, month_range[1])>>
    \o (IF spreadsheet_id # "" THEN <<InvoiceRequest(spreadsheet_id)>> ELSE <<>>)

ExpectedFiles ==
    <<ReportFilename(SUM, PDF, month_range[1]),
      ReportFilename(DET, PDF, month_range[1]),
      ReportFilename(DET, CSV, month_range[1])>>
    \o (IF spreadsheet_id # ""
            THEN <<ReportFilename(INVOICE, XLSX, month_range[1])>> ELSE <<>>)

RunInOrder ==
    /\ month_range = None => requests = <<>> /\ files = <<>>
    /\ month_range # None =>
        /\ IsPrefix(requests, ExpectedRequests)
        /\ IsPrefix(files, ExpectedFiles)
    /\ pc = "returned" =>
        err = "" /\ requests = ExpectedRequests /\ files = ExpectedFiles

EndedByValidation == err = "ValueError" /\ requests = <<>> /\ files = <<>>
EndedByFetch ==
    /\ err = "HTTPError"
    /\ Len(files) = (IF Len(requests) = 1 THEN 0 ELSE Len(requests) - 2)

\* C7 as stated: the steps run in the order MonthRange, fetch and check,
\* summary PDF, detail PDF, detail CSV, invoice if configured; the run stops
\* short of them only after a failed MonthRange validation, with no request
\* made, or after a request answered with an error status, with no file
\* written for it and nothing attempted after it.
C7_RunEndsEarlyOnlyOnValidationOrFetch ==
    /\ RunInOrder
    /\ pc = "raised" => (EndedByValidation \/ EndedByFetch)

\* What holds of run() as it is: the same, with the KeyError of
\* get_time_entries as a third way to stop, after the first request.
C7_RunOrderAsImplemented ==
    /\ RunInOrder
    /\ pc = "raised" =>
        \/ EndedByValidation
        \/ EndedByFetch
        \/ (err = "KeyError" /\ malformed = "record"
            /\ Len(requests) = 1 /\ files = <<>> /\ warnings = <<>>)

====
